---- MODULE Spec2Model ----
(***************************************************************************)
(* The bridge session of src/server.js, lines 33-272: the variant of the   *)
(* Twilio <Stream> / OpenAI Realtime bridge with tryCommitAndRespond.      *)
(* One call session: its closure variables, its two sockets, its two       *)
(* interval timers, and one action per event handler.  Every handler runs  *)
(* to completion (Node's event loop), so each is one atomic action.        *)
(*                                                                         *)
(* The payloads of 'media' frames and of audio deltas are opaque to the    *)
(* code, which tests them only for being present: the n-th payload         *)
(* received is the number n, so that a lost, repeated or reordered payload *)
(* shows in the logs.  A tick of the keepAlive interval pings both sockets *)
(* and changes nothing of the session, and frameCountLog is read only by   *)
(* console.log: neither is modelled beyond the timer being scheduled.      *)
(***************************************************************************)
EXTENDS Integers, Sequences, FiniteSets, TLC

(***************************************************************************)
(* Bounds of the model (not program constants).                            *)
(***************************************************************************)
\* telephony 'media' frames carrying a payload that one call delivers
MaxMedia == 11
\* audio-delta events carrying a payload that the AI session emits
MaxDeltas == 2
\* closing utterances ('stop' events that find the session idle)
MaxGoodbye == 1

(***************************************************************************)
(* Program constants.                                                      *)
(***************************************************************************)
MIN_FRAMES_FOR_COMMIT == 10

\* WebSocket.readyState of the ws library
CONNECTING == 0
OPEN == 1
CLOSING == 2
CLOSED == 3

\* JavaScript null (streamSid before 'start', or a 'start' without one)
Null == "null"
\* the stream identifier the telephony side assigns to the call
Sids == {"SD123"}
\* a missing / empty (falsy) payload field of a JSON message
Missing == 0

\* texts of the two scripted utterances
GreetingText == "Good evening, Sunshine Pools and Construction. How can I help you today?"
GoodbyeText == "Thanks for calling Sunshine. Have a great day!"

VARIABLES
  streamSid,            \* let streamSid
  sessionReady,         \* let sessionReady
  inProgress,           \* let inProgress
  saidHello,            \* let saidHello
  conversationStarted,  \* let conversationStarted
  framesQueued,         \* let framesQueued
  bufferDirty,          \* let bufferDirty
  audioQueue,           \* const audioQueue = []
  oaiReadyState,        \* oaiWS.readyState
  oaiReceiving,         \* the AI socket can still emit 'message'
  twilioReadyState,     \* twilioWS.readyState
  keepAlive,            \* TRUE while the keepAlive interval is scheduled
  flusher,              \* TRUE while the flusher interval is scheduled
  oaiSent,              \* every message handed to oaiWS.send, in order
  twilioSent,           \* every frame handed to twilioWS.send, in order
  mediaSeen,            \* number of 'media' frames with a payload received
  deltaSeen,            \* number of audio deltas with a payload received
  deltaLog,             \* deltas with a payload received while streamSid was set
  stopSeen,             \* a telephony 'stop' event has been processed
  cleanupRuns,          \* how often cleanup() has run (counted up to 2)
  readyEvents,          \* session.updated events received (counted up to 2)
  inFlight,             \* the response requested from the AI session and not
                        \* yet completed: the oldest one, or NoResponse
  errored,              \* an 'error' event has arrived since inFlight was
                        \* requested
  sinceCommit           \* frames pushed on audioQueue since the commit step of
                        \* tryCommitAndRespond last ran

vars == <<streamSid, sessionReady, inProgress, saidHello, conversationStarted,
          framesQueued, bufferDirty, audioQueue, oaiReadyState, oaiReceiving,
          twilioReadyState,
          keepAlive, flusher, oaiSent, twilioSent, mediaSeen, deltaSeen,
          deltaLog, stopSeen, cleanupRuns, readyEvents, inFlight, errored, sinceCommit>>

\* the closure variables of lines 37-47
sessionVars == <<streamSid, sessionReady, inProgress, saidHello,
                 conversationStarted, framesQueued, bufferDirty, audioQueue>>
\* sockets and timers
resourceVars == <<oaiReadyState, oaiReceiving, twilioReadyState, keepAlive,
                  flusher>>
\* observation of the environment
ghostVars == <<mediaSeen, deltaSeen, deltaLog, stopSeen, cleanupRuns,
               readyEvents>>
\* observation of the exchange with the AI session
responseVars == <<inFlight, errored, sinceCommit>>

(***************************************************************************)
(* Messages sent to the AI session.                                        *)
(***************************************************************************)
Msg(t, a, x, m) == [type |-> t, audio |-> a, text |-> x, modalities |-> m]

SessionUpdateMsg == Msg("session.update", Missing, "", "")
GreetingItemMsg == Msg("conversation.item.create", Missing, GreetingText, "")
GoodbyeItemMsg == Msg("conversation.item.create", Missing, GoodbyeText, "")
AudioResponseMsg == Msg("response.create", Missing, "", "audio")
TurnResponseMsg == Msg("response.create", Missing, "", "text,audio")
AppendMsg(base64) == Msg("input_audio_buffer.append", base64, "", "")
CommitMsg == Msg("input_audio_buffer.commit", Missing, "", "")

\* the frame relayed to the telephony socket
MediaPkt(sid, payload) == [event |-> "media", streamSid |-> sid, payload |-> payload]

(***************************************************************************)
(* What the AI session is doing, as the far end of oaiWS sees it: it       *)
(* generates a response from the response.create that reaches it until it  *)
(* emits a terminal event for it.                                          *)
(***************************************************************************)
NoResponse == "none"

\* the names under which the Realtime API reports that a response has ended:
\* end of generation, end of its audio, and the explicit done
TerminalTypes == {"response.completed", "response.audio.done", "response.done"}

\* the handler that produced log2 from log has sent a response.create
Requests(log, log2) ==
  Len(log2) > Len(log) /\ log2[Len(log2)].type = "response.create"

\* the response in flight after a handler that found `pending` in flight and
\* turned the log of sent messages from log into log2
InFlightAfter(pending, kind, log, log2) ==
  IF Requests(log, log2) /\ pending = NoResponse THEN kind ELSE pending

(***************************************************************************)
(* safeSend: the message reaches oaiWS.send only when readyState is 1.     *)
(***************************************************************************)
SafeSend(readyState, log, obj) ==
  IF readyState # OPEN THEN log ELSE Append(log, obj)

\* several safeSend calls in a row, within one handler
RECURSIVE SafeSendAll(_, _, _)
SafeSendAll(readyState, log, objs) ==
  IF objs = <<>> THEN log
  ELSE SafeSendAll(readyState, SafeSend(readyState, log, Head(objs)), Tail(objs))

(***************************************************************************)
(* State after wss.on('connection') has run: the telephony socket is open, *)
(* the AI socket is still connecting, both intervals are scheduled.        *)
(***************************************************************************)
Init ==
  /\ streamSid = Null
  /\ sessionReady = FALSE
  /\ inProgress = FALSE
  /\ saidHello = FALSE
  /\ conversationStarted = FALSE
  /\ framesQueued = 0
  /\ bufferDirty = FALSE
  /\ audioQueue = <<>>
  /\ oaiReadyState = CONNECTING
  /\ oaiReceiving = FALSE
  /\ twilioReadyState = OPEN
  /\ keepAlive = TRUE
  /\ flusher = TRUE
  /\ oaiSent = <<>>
  /\ twilioSent = <<>>
  /\ mediaSeen = 0
  /\ deltaSeen = 0
  /\ deltaLog = <<>>
  /\ stopSeen = FALSE
  /\ cleanupRuns = 0
  /\ readyEvents = 0
  /\ inFlight = NoResponse
  /\ errored = FALSE
  /\ sinceCommit = 0

(***************************************************************************)
(* cleanup(): clearInterval on both timers, close() on both sockets.       *)
(* close() of the ws library: no effect on a CLOSED socket, otherwise the  *)
(* socket is CLOSING until its 'close' event.                              *)
(***************************************************************************)
CloseSocket(readyState) == IF readyState = CLOSED THEN CLOSED ELSE CLOSING

Resources == [keepAlive |-> keepAlive, flusher |-> flusher,
              oai |-> oaiReadyState, twilio |-> twilioReadyState]

\* cleanup that leaves the flush timer scheduled
cleanupLeavesFlusher(r) ==
  [keepAlive |-> FALSE, flusher |-> r.flusher,
   oai |-> CloseSocket(r.oai), twilio |-> CloseSocket(r.twilio)]

cleanup(r) == [keepAlive |-> FALSE, flusher |-> FALSE,
               oai |-> CloseSocket(r.oai), twilio |-> CloseSocket(r.twilio)]

\* cleanup() run by a handler that found the sockets in states oai and twilio
RunCleanup(oai, twilio) ==
  LET r == cleanup([keepAlive |-> keepAlive, flusher |-> flusher,
                    oai |-> oai, twilio |-> twilio])
  IN /\ keepAlive' = r.keepAlive
     /\ flusher' = r.flusher
     /\ oaiReadyState' = r.oai
     /\ oaiReceiving' = oaiReceiving
     /\ twilioReadyState' = r.twilio
     /\ cleanupRuns' = IF cleanupRuns < 2 THEN cleanupRuns + 1 ELSE cleanupRuns

(***************************************************************************)
(* sendInitialGreeting                                                     *)
(***************************************************************************)
\* the guard without the sent-once flag
GreetingGuardNoFlag(hello, ready) == ready

GreetingGuard(hello, ready) == ~(hello \/ ~ready)

\* called from the session.updated branch, which has just set sessionReady
sendInitialGreeting(ready) ==
  IF GreetingGuard(saidHello, ready)
  THEN /\ saidHello' = TRUE
       /\ inProgress' = TRUE
       /\ oaiSent' = SafeSendAll(oaiReadyState, oaiSent, <<GreetingItemMsg, AudioResponseMsg>>)
  ELSE UNCHANGED <<saidHello, inProgress, oaiSent>>

(***************************************************************************)
(* tryCommitAndRespond                                                     *)
(***************************************************************************)
\* the guard with the threshold off by one (<= for <)
CommitGuardAboveThreshold(ready, busy, dirty, queued) ==
  /\ ~(~ready \/ busy)
  /\ ~(~dirty \/ queued <= MIN_FRAMES_FOR_COMMIT)

\* the guard without its second line (dirty flag and threshold)
CommitGuardNoThreshold(ready, busy, dirty, queued) == ~(~ready \/ busy)

CommitGuard(ready, busy, dirty, queued) ==
  /\ ~(~ready \/ busy)
  /\ ~(~dirty \/ queued < MIN_FRAMES_FOR_COMMIT)

\* the append commands of the while loop, one per queued frame, in shift order
RECURSIVE AppendMsgs(_)
AppendMsgs(queue) ==
  IF Len(queue) = 0 THEN <<>>
  ELSE <<AppendMsg(Head(queue))>> \o AppendMsgs(Tail(queue))

\* busy is the value of inProgress when the procedure is entered
tryCommitAndRespond(busy) ==
  IF CommitGuard(sessionReady, busy, bufferDirty, framesQueued)
  THEN /\ oaiSent' = SafeSendAll(oaiReadyState, oaiSent,
                        AppendMsgs(audioQueue) \o <<CommitMsg, TurnResponseMsg>>)
       /\ audioQueue' = <<>>
       /\ framesQueued' = framesQueued - Len(audioQueue)
       /\ bufferDirty' = FALSE
       /\ inProgress' = TRUE
  ELSE /\ inProgress' = busy
       /\ UNCHANGED <<oaiSent, audioQueue, framesQueued, bufferDirty>>

\* const flusher = setInterval(tryCommitAndRespond, 150)
FlushTick ==
  /\ flusher
  /\ tryCommitAndRespond(inProgress)
  /\ inFlight' = InFlightAfter(inFlight, "turn", oaiSent, oaiSent')
  /\ errored' = errored
  /\ sinceCommit' = IF CommitGuard(sessionReady, inProgress, bufferDirty, framesQueued)
                    THEN 0 ELSE sinceCommit
  /\ UNCHANGED <<streamSid, sessionReady, saidHello, conversationStarted,
                 resourceVars, twilioSent, ghostVars>>

(***************************************************************************)
(* AI-session socket events.  The ws library emits 'message' from 'open'   *)
(* until the socket fails or is closed: also after close() has been called *)
(* locally on an open socket, which is then CLOSING while the peer's       *)
(* frames in flight still arrive.                                          *)
(***************************************************************************)
OaiDelivers == oaiReceiving

\* oaiWS.on('open'): the socket is open, session.update is sent
OaiOpen ==
  /\ oaiReadyState = CONNECTING
  /\ oaiReadyState' = OPEN
  /\ oaiReceiving' = TRUE
  /\ oaiSent' = SafeSend(OPEN, oaiSent, SessionUpdateMsg)
  /\ UNCHANGED <<sessionVars, twilioReadyState, keepAlive, flusher,
                 twilioSent, ghostVars, responseVars>>

\* evt.type === 'session.updated'
SessionUpdated ==
  /\ OaiDelivers
  /\ sessionReady' = TRUE
  /\ sendInitialGreeting(TRUE)
  /\ readyEvents' = IF readyEvents < 2 THEN readyEvents + 1 ELSE readyEvents
  /\ inFlight' = InFlightAfter(inFlight, "greeting", oaiSent, oaiSent')
  /\ UNCHANGED <<errored, sinceCommit>>
  /\ UNCHANGED <<streamSid, conversationStarted, framesQueued, bufferDirty,
                 audioQueue, resourceVars, twilioSent, mediaSeen, deltaSeen,
                 deltaLog, stopSeen, cleanupRuns>>

\* evt.type === 'response.created'
ResponseCreated ==
  /\ OaiDelivers
  /\ inProgress' = TRUE
  /\ UNCHANGED <<streamSid, sessionReady, saidHello, conversationStarted,
                 framesQueued, bufferDirty, audioQueue, resourceVars,
                 oaiSent, twilioSent, ghostVars, responseVars>>

\* evt.type === 'response.done'
ResponseDone ==
  /\ OaiDelivers
  /\ conversationStarted' = TRUE
  /\ tryCommitAndRespond(FALSE)
  /\ inFlight' = InFlightAfter(NoResponse, "turn", oaiSent, oaiSent')
  /\ errored' = FALSE
  /\ sinceCommit' = IF CommitGuard(sessionReady, FALSE, bufferDirty, framesQueued)
                    THEN 0 ELSE sinceCommit
  /\ UNCHANGED <<streamSid, sessionReady, saidHello, resourceVars,
                 twilioSent, ghostVars>>

\* const audioData = evt.delta || evt.audio
AudioData(delta, audio) == IF delta # Missing THEN delta ELSE audio

\* only one of the two names recognised
IsAudioDeltaOneName(type) == type = "response.output_audio.delta"

\* evt.type === 'response.audio.delta' || evt.type === 'response.output_audio.delta'
IsAudioDelta(type) ==
  type = "response.audio.delta" \/ type = "response.output_audio.delta"

\* the guard without the streamSid test
RelayGuardNoSid(sid, audioData) == audioData # Missing

\* ... && streamSid) { ... if (audioData) {
RelayGuard(sid, audioData) == sid # Null /\ audioData # Missing

\* a message of the given type with fields evt.delta and evt.audio
AudioDelta(type, delta, audio) ==
  /\ OaiDelivers
  /\ twilioSent' =
       IF IsAudioDelta(type) /\ RelayGuard(streamSid, AudioData(delta, audio))
       THEN Append(twilioSent, MediaPkt(streamSid, AudioData(delta, audio)))
       ELSE twilioSent
  /\ UNCHANGED <<sessionVars, resourceVars, oaiSent, responseVars>>

\* the two names under which the AI session emits audio deltas
DeltaNames == {"response.audio.delta", "response.output_audio.delta"}

\* the deltas the AI session emits: the payload of the n-th delta is n, carried
\* in evt.delta, in evt.audio or in both; or a delta without any payload
AudioDeltaEvent ==
  \E type \in DeltaNames :
    \/ /\ deltaSeen < MaxDeltas
       /\ \E field \in {"delta", "audio", "both"} :
            AudioDelta(type,
                       IF field = "audio" THEN Missing ELSE deltaSeen + 1,
                       IF field = "delta" THEN Missing ELSE deltaSeen + 1)
       /\ deltaSeen' = deltaSeen + 1
       /\ deltaLog' = IF streamSid # Null
                      THEN Append(deltaLog, [streamSid |-> streamSid,
                                             payload |-> deltaSeen + 1])
                      ELSE deltaLog
       /\ UNCHANGED <<mediaSeen, stopSeen, cleanupRuns, readyEvents>>
    \/ /\ AudioDelta(type, Missing, Missing)
       /\ UNCHANGED ghostVars

\* an 'error' branch that only logs
ErrorEventKeepsBusy ==
  /\ OaiDelivers
  /\ errored' = (inFlight # NoResponse)
  /\ UNCHANGED <<sessionVars, resourceVars, oaiSent, twilioSent, ghostVars,
                 inFlight, sinceCommit>>

\* evt.type === 'error'
ErrorEvent ==
  /\ OaiDelivers
  /\ inProgress' = FALSE
  /\ errored' = (inFlight # NoResponse)
  /\ UNCHANGED <<streamSid, sessionReady, saidHello, conversationStarted,
                 framesQueued, bufferDirty, audioQueue, resourceVars,
                 oaiSent, twilioSent, ghostVars, inFlight, sinceCommit>>

\* event types no branch of the handler acts on
IgnoredOaiTypes == {"session.created", "response.completed",
                    "response.audio.done"}

OaiIgnored(type) ==
  /\ OaiDelivers
  /\ type \in IgnoredOaiTypes
  /\ inFlight' = IF type \in TerminalTypes THEN NoResponse ELSE inFlight
  /\ errored' = IF type \in TerminalTypes THEN FALSE ELSE errored
  /\ sinceCommit' = sinceCommit
  /\ UNCHANGED <<sessionVars, resourceVars, oaiSent, twilioSent, ghostVars>>

\* a parse failure handled as the 'error' branch handles its event
OaiUnparseableAsError ==
  /\ OaiDelivers
  /\ inProgress' = FALSE
  /\ UNCHANGED <<streamSid, sessionReady, saidHello, conversationStarted,
                 framesQueued, bufferDirty, audioQueue, resourceVars,
                 oaiSent, twilioSent, ghostVars, responseVars>>

\* try { evt = JSON.parse(msg.toString()); } catch { return; }
\* a message that is not JSON
OaiUnparseable ==
  /\ OaiDelivers
  /\ UNCHANGED vars

\* oaiWS.on('error'): logs only; the ws library has put the socket in CLOSING
OaiSocketError ==
  /\ oaiReadyState \in {CONNECTING, OPEN}
  /\ oaiReadyState' = CLOSING
  /\ oaiReceiving' = FALSE
  /\ UNCHANGED <<sessionVars, twilioReadyState, keepAlive, flusher,
                 oaiSent, twilioSent, ghostVars, responseVars>>

\* oaiWS.on('close'): logs only; the socket is CLOSED
OaiClose ==
  /\ oaiReadyState # CLOSED
  /\ oaiReadyState' = CLOSED
  /\ oaiReceiving' = FALSE
  /\ UNCHANGED <<sessionVars, twilioReadyState, keepAlive, flusher,
                 oaiSent, twilioSent, ghostVars, responseVars>>

(***************************************************************************)
(* Telephony socket events.                                                *)
(***************************************************************************)
\* cleanup() runs only in the 'close' and 'error' handlers of this socket, so
\* the socket emits 'message' exactly while it is OPEN
TwilioDelivers == twilioReadyState = OPEN

\* a start branch that also empties the inbound buffer
TwilioStartClearsQueue(sid) ==
  /\ TwilioDelivers
  /\ streamSid' = sid
  /\ audioQueue' = <<>>
  /\ framesQueued' = 0
  /\ bufferDirty' = FALSE
  /\ sinceCommit' = 0
  /\ UNCHANGED <<sessionReady, inProgress, saidHello, conversationStarted,
                 resourceVars, oaiSent, twilioSent, ghostVars, inFlight,
                 errored>>

\* data.event === 'start': streamSid = data.start?.streamSid || null
TwilioStart(sid) ==
  /\ TwilioDelivers
  /\ streamSid' = sid
  /\ UNCHANGED <<sessionReady, inProgress, saidHello, conversationStarted,
                 framesQueued, bufferDirty, audioQueue, resourceVars,
                 oaiSent, twilioSent, ghostVars, responseVars>>

\* a 'start' carrying one of the stream identifiers, or none
StartEvent == \E sid \in Sids \cup {Null} : TwilioStart(sid)

\* a media branch that queues from the first frame on
MediaGateOpen(started) == TRUE

\* if (conversationStarted)
MediaGate(started) == started

\* a media branch that leaves the flag as it is
DirtyOnMediaKept == bufferDirty

\* bufferDirty = true
DirtyOnMedia == TRUE

\* data.event === 'media' && data.media?.payload
TwilioMedia(payload) ==
  /\ TwilioDelivers
  /\ IF payload # Missing
     THEN /\ mediaSeen' = mediaSeen + 1
          /\ IF MediaGate(conversationStarted)
             THEN /\ audioQueue' = Append(audioQueue, payload)
                  /\ framesQueued' = framesQueued + 1
                  /\ bufferDirty' = DirtyOnMedia
                  /\ sinceCommit' = sinceCommit + 1
             ELSE UNCHANGED <<audioQueue, framesQueued, bufferDirty,
                              sinceCommit>>
     ELSE UNCHANGED <<mediaSeen, audioQueue, framesQueued, bufferDirty,
                      sinceCommit>>
  /\ UNCHANGED <<streamSid, sessionReady, inProgress, saidHello,
                 conversationStarted, resourceVars, oaiSent, twilioSent,
                 deltaSeen, deltaLog, stopSeen, cleanupRuns, readyEvents,
                 inFlight, errored>>

\* the frames the caller sends: the payload of the n-th frame is n; or a
\* 'media' event without a payload
MediaEvent ==
  \/ /\ mediaSeen < MaxMedia
     /\ TwilioMedia(mediaSeen + 1)
  \/ TwilioMedia(Missing)

\* number of closing utterances sent so far
RECURSIVE Count(_, _)
Count(log, obj) ==
  IF log = <<>> THEN 0
  ELSE (IF Head(log) = obj THEN 1 ELSE 0) + Count(Tail(log), obj)

\* if (!inProgress && conversationStarted)
GoodbyeGuard(busy, started) == ~busy /\ started

\* data.event === 'stop'
TwilioStop ==
  /\ TwilioDelivers
  /\ (GoodbyeGuard(inProgress, conversationStarted) /\ oaiReadyState = OPEN)
        => Count(oaiSent, GoodbyeItemMsg) < MaxGoodbye
  /\ IF GoodbyeGuard(inProgress, conversationStarted)
     THEN /\ inProgress' = TRUE
          /\ oaiSent' = SafeSendAll(oaiReadyState, oaiSent, <<GoodbyeItemMsg, AudioResponseMsg>>)
     ELSE UNCHANGED <<inProgress, oaiSent>>
  /\ stopSeen' = TRUE
  /\ inFlight' = InFlightAfter(inFlight, "goodbye", oaiSent, oaiSent')
  /\ UNCHANGED <<errored, sinceCommit>>
  /\ UNCHANGED <<streamSid, sessionReady, saidHello, conversationStarted,
                 framesQueued, bufferDirty, audioQueue, resourceVars,
                 twilioSent, mediaSeen, deltaSeen, deltaLog, cleanupRuns,
                 readyEvents>>

\* a message no branch acts on (another event name)
TwilioIgnored ==
  /\ TwilioDelivers
  /\ UNCHANGED vars

\* try { data = JSON.parse(msg.toString()); } catch { return; }
\* a message that is not JSON
TwilioUnparseable ==
  /\ TwilioDelivers
  /\ UNCHANGED vars

\* twilioWS.on('close'): the socket is CLOSED, cleanup() runs
TwilioClose ==
  /\ twilioReadyState # CLOSED
  /\ RunCleanup(oaiReadyState, CLOSED)
  /\ UNCHANGED <<sessionVars, oaiSent, twilioSent, mediaSeen, deltaSeen,
                 deltaLog, stopSeen, readyEvents, responseVars>>

\* twilioWS.on('error'): the ws library has put the socket in CLOSING,
\* cleanup() runs
TwilioError ==
  /\ twilioReadyState = OPEN
  /\ RunCleanup(oaiReadyState, CLOSING)
  /\ UNCHANGED <<sessionVars, oaiSent, twilioSent, mediaSeen, deltaSeen,
                 deltaLog, stopSeen, readyEvents, responseVars>>

(***************************************************************************)
(* The call session.                                                       *)
(***************************************************************************)
Next ==
  \/ OaiOpen
  \/ SessionUpdated
  \/ ResponseCreated
  \/ ResponseDone
  \/ AudioDeltaEvent
  \/ ErrorEvent
  \/ \E type \in IgnoredOaiTypes : OaiIgnored(type)
  \/ OaiUnparseable
  \/ OaiSocketError
  \/ OaiClose
  \/ StartEvent
  \/ MediaEvent
  \/ TwilioStop
  \/ TwilioIgnored
  \/ TwilioUnparseable
  \/ TwilioClose
  \/ TwilioError
  \/ FlushTick

Spec == Init /\ [][Next]_vars

\* the timers fire for as long as they are scheduled; nothing obliges the
\* caller or the AI session to send anything
FairSpec == Spec /\ WF_vars(FlushTick)

(***************************************************************************)
(* Observations on the two logs.                                           *)
(***************************************************************************)
\* number of messages of the given type in a log
RECURSIVE CountType(_, _)
CountType(log, type) ==
  IF log = <<>> THEN 0
  ELSE (IF Head(log).type = type THEN 1 ELSE 0) + CountType(Tail(log), type)

ResponseCreates(log) == CountType(log, "response.create")
Commits(log) == CountType(log, "input_audio_buffer.commit")
Greetings(log) == Count(log, GreetingItemMsg)

\* the payloads of the append commands of a log, in order
RECURSIVE AppendedPayloads(_)
AppendedPayloads(log) ==
  IF log = <<>> THEN <<>>
  ELSE (IF Head(log).type = "input_audio_buffer.append"
        THEN <<Head(log).audio>> ELSE <<>>) \o AppendedPayloads(Tail(log))

\* timers cancelled, close() called on both sockets
TornDown ==
  /\ ~keepAlive
  /\ ~flusher
  /\ oaiReadyState \in {CLOSING, CLOSED}
  /\ twilioReadyState \in {CLOSING, CLOSED}

(***************************************************************************)
(* C1: a response.create is never sent to the AI session in a step that    *)
(* starts with inProgress already true (sendInitialGreeting,               *)
(* tryCommitAndRespond and the 'stop' branch are the only senders).        *)
(***************************************************************************)
C1_NoOverlappingResponse ==
  [][ResponseCreates(oaiSent') > ResponseCreates(oaiSent) => ~inProgress]_vars

(***************************************************************************)
(* C2: every input_audio_buffer.commit in the log of sent messages has an  *)
(* input_audio_buffer.append before it, after the previous commit (or the  *)
(* start of the call).                                                     *)
(***************************************************************************)
C2_NoEmptyCommit ==
  \A i \in 1..Len(oaiSent) :
    oaiSent[i].type = "input_audio_buffer.commit" =>
      \E j \in 1..(i - 1) :
        /\ oaiSent[j].type = "input_audio_buffer.append"
        /\ \A k \in (j + 1)..(i - 1) : oaiSent[k].type # "input_audio_buffer.commit"

\* a commit has been sent
C2_Witness == Commits(oaiSent) >= 1

(***************************************************************************)
(* C3: a run of tryCommitAndRespond (flush tick, or response.done) that    *)
(* finds sessionReady true and inProgress false sends no commit when fewer *)
(* than MIN_FRAMES_FOR_COMMIT frames are buffered, and one commit when     *)
(* MIN_FRAMES_FOR_COMMIT or more frames appended since the last commit are *)
(* buffered.                                                               *)
(***************************************************************************)
C3_ThresholdRespected ==
  [][((FlushTick /\ ~inProgress) \/ ResponseDone) /\ sessionReady =>
       /\ framesQueued < MIN_FRAMES_FOR_COMMIT =>
            Commits(oaiSent') = Commits(oaiSent)
       /\ (bufferDirty /\ framesQueued >= MIN_FRAMES_FOR_COMMIT) =>
            Commits(oaiSent') = Commits(oaiSent) + 1]_vars

(***************************************************************************)
(* C4: the payloads of the append commands sent to the AI session are the  *)
(* payloads of the 'media' frames received, in the order received, none    *)
(* dropped or duplicated, whenever nothing is left in the queue (frames    *)
(* received before the session is ready or the greeting is over included). *)
(***************************************************************************)
C4_OrderPreserved ==
  audioQueue = <<>> =>
    AppendedPayloads(oaiSent) = [i \in 1..mediaSeen |-> i]

C6_PreStartSilence ==
  /\ [](\A i \in 1..Len(twilioSent) : twilioSent[i].streamSid # Null)
  /\ [][streamSid = Null => twilioSent' = twilioSent]_vars

\* a delta with a payload has arrived while streamSid was unset
C6_Witness ==
  /\ streamSid = Null
  /\ deltaSeen >= 1
  /\ twilioSent = <<>>

(***************************************************************************)
(* C7 as stated: once session.updated has been received, exactly one       *)
(* greeting has been issued, however often the event is received.          *)
(***************************************************************************)
C7_ExactlyOneGreeting ==
  sessionReady =>
    /\ Greetings(oaiSent) = 1
    /\ Count(oaiSent, AudioResponseMsg) >= 1

(***************************************************************************)
(* C7 amended: at most one greeting is ever issued; the first              *)
(* session.updated sends it (the conversation.item.create with the         *)
(* greeting text, then a response.create) when the AI socket is open and   *)
(* sends nothing when it is not; a later session.updated sends nothing.    *)
(***************************************************************************)
C7_AtMostOneGreeting ==
  /\ [](Greetings(oaiSent) <= 1)
  /\ [][SessionUpdated =>
          oaiSent' = IF ~sessionReady /\ oaiReadyState = OPEN
                     THEN oaiSent \o <<GreetingItemMsg, AudioResponseMsg>>
                     ELSE oaiSent]_vars

\* the greeting has been sent and session.updated has been received again
C7_Witness ==
  /\ Greetings(oaiSent) = 1
  /\ readyEvents = 2

(***************************************************************************)
(* C8: once cleanup has run, running it again changes nothing: both timers *)
(* stay cancelled, both sockets stay closing or closed; and in every       *)
(* state two runs of cleanup give what one run gives.                      *)
(***************************************************************************)
C8_CleanupIdempotent ==
  /\ cleanup(cleanup(Resources)) = cleanup(Resources)
  /\ cleanupRuns >= 1 =>
       /\ cleanup(Resources) = Resources
       /\ TornDown

\* cleanup has run twice (telephony 'error', then telephony 'close')
C8_Witness == cleanupRuns = 2 /\ twilioReadyState = CLOSED

(***************************************************************************)
(* C9: a step in which either socket closes or fails leaves the session    *)
(* torn down: both timers cancelled, both sockets closed.                  *)
(***************************************************************************)
C9_TeardownOnEitherSocket ==
  [][(\/ oaiReadyState' # oaiReadyState /\ oaiReadyState' \in {CLOSING, CLOSED}
      \/ twilioReadyState' # twilioReadyState
           /\ twilioReadyState' \in {CLOSING, CLOSED})
       => TornDown']_vars

(***************************************************************************)
(* C10: once a telephony 'stop' has been processed, the session is         *)
(* eventually torn down.                                                   *)
(***************************************************************************)
C10_TeardownAfterStop == stopSeen ~> TornDown

(***************************************************************************)
(* C11: an 'error' event of the AI session sets inProgress to false and    *)
(* changes nothing else: no socket is closed, no timer cancelled, nothing  *)
(* sent.  After an error that arrived while a response was in flight, in   *)
(* every state in which inProgress is still false, the session is ready,   *)
(* the AI socket open and MIN_FRAMES_FOR_COMMIT or more frames buffered,   *)
(* the flush tick issues the appends, a commit and a response.create.      *)
(***************************************************************************)
TurnIssued ==
  oaiSent' = oaiSent \o AppendMsgs(audioQueue) \o <<CommitMsg, TurnResponseMsg>>

UnblockedAfterError ==
  /\ errored
  /\ ~inProgress
  /\ sessionReady
  /\ oaiReadyState = OPEN
  /\ flusher
  /\ framesQueued >= MIN_FRAMES_FOR_COMMIT

C12_TerminalEventsAlike ==
  [][(ResponseDone \/ \E type \in TerminalTypes : OaiIgnored(type)) =>
       tryCommitAndRespond(FALSE)]_vars

(***************************************************************************)
(* C13: a message that is not JSON, on either socket, is dropped: wherever *)
(* one can arrive, its handling leaves streamSid, sessionReady,            *)
(* inProgress, saidHello, conversationStarted, the queue, its counter and  *)
(* bufferDirty as they were, sends nothing on either socket and touches no *)
(* socket or timer, so that the messages after it find the state they      *)
(* would have found without it.                                            *)
(***************************************************************************)
Untouched == UNCHANGED <<sessionVars, resourceVars, oaiSent, twilioSent>>

C13_GarbageDropped ==
  /\ OaiDelivers => ENABLED (OaiUnparseable /\ Untouched)
  /\ TwilioDelivers => ENABLED (TwilioUnparseable /\ Untouched)

\* both sockets deliver in the middle of a call: a response in progress,
\* frames buffered, the stream started
C13_Witness ==
  /\ OaiDelivers
  /\ TwilioDelivers
  /\ inProgress
  /\ audioQueue # <<>>
  /\ streamSid # Null

(***************************************************************************)
(* C14: while the greeting's response is in flight (its response.create    *)
(* sent, no terminal event received since), no step sends an               *)
(* input_audio_buffer.commit or an input_audio_buffer.append.              *)
(***************************************************************************)
C14_GreetingNotInterrupted ==
  [][(inFlight = "greeting" /\ inFlight' = "greeting") =>
       /\ Commits(oaiSent') = Commits(oaiSent)
       /\ AppendedPayloads(oaiSent') = AppendedPayloads(oaiSent)]_vars

(***************************************************************************)
(* C15: a run of tryCommitAndRespond (from the flush tick or from the      *)
(* response.done branch) that passes its guards sends one append per       *)
(* queued frame, for all of them and in queue order, then one commit, then *)
(* one response.create with modalities text and audio, and nothing else;   *)
(* it leaves the queue empty, framesQueued 0, bufferDirty false and        *)
(* inProgress true.                                                        *)
(***************************************************************************)
CommitRuns ==
  \/ FlushTick /\ CommitGuard(sessionReady, inProgress, bufferDirty, framesQueued)
  \/ ResponseDone /\ CommitGuard(sessionReady, FALSE, bufferDirty, framesQueued)

C15_CommitSequence ==
  [][CommitRuns =>
       /\ TurnIssued
       /\ audioQueue' = <<>>
       /\ framesQueued' = 0
       /\ bufferDirty' = FALSE
       /\ inProgress' = TRUE]_vars

(***************************************************************************)
(* C16: a response.done received while the session is ready and            *)
(* MIN_FRAMES_FOR_COMMIT or more frames are buffered has those frames      *)
(* appended, committed and a new response requested by the step that       *)
(* handles the event itself, not by a later flush tick.                    *)
(***************************************************************************)
C16_CommitOnCompletion ==
  [][(ResponseDone /\ sessionReady /\ bufferDirty
        /\ framesQueued >= MIN_FRAMES_FOR_COMMIT) => TurnIssued]_vars

(***************************************************************************)
(* C18: at most one response is in flight at the AI session: a             *)
(* response.create is sent only when none is in flight, or by the handling *)
(* of the terminal event of the one in flight.                             *)
(***************************************************************************)
C18_OneResponseInFlight ==
  [][(ResponseCreates(oaiSent') > ResponseCreates(oaiSent) /\ ~ResponseDone) =>
       inFlight = NoResponse]_vars

(***************************************************************************)
(* C19: every frame removed from audioQueue has been sent to the AI        *)
(* session as an input_audio_buffer.append: a step that shortens the queue *)
(* extends the appended payloads by the frames it removed, in order.       *)
(***************************************************************************)
C19_DrainedFramesSent ==
  [][Len(audioQueue') < Len(audioQueue) =>
       AppendedPayloads(oaiSent') =
         AppendedPayloads(oaiSent)
           \o SubSeq(audioQueue, 1, Len(audioQueue) - Len(audioQueue'))]_vars

(***************************************************************************)
(* C20: in every reachable state bufferDirty is true exactly when a frame  *)
(* has been pushed on the queue since the commit step last ran, which is   *)
(* exactly when the queue is not empty, and framesQueued is the length of  *)
(* the queue; and a flush tick that finds no frame pushed since the last   *)
(* commit sends nothing and changes no variable of the session.            *)
(***************************************************************************)
C20_DirtyIffQueued ==
  /\ bufferDirty = (sinceCommit > 0)
  /\ bufferDirty = (audioQueue # <<>>)
  /\ framesQueued = Len(audioQueue)
  /\ sinceCommit = Len(audioQueue)
  /\ (flusher /\ sinceCommit = 0) =>
       ENABLED (FlushTick /\ UNCHANGED <<sessionVars, resourceVars, oaiSent,
                                         twilioSent>>)

\* a commit has been sent and no frame pushed since; the session is ready and
\* idle and the timer runs, so that only the flag holds the next tick back
C20_Witness ==
  /\ Commits(oaiSent) >= 1
  /\ sinceCommit = 0
  /\ sessionReady
  /\ ~inProgress
  /\ oaiReadyState = OPEN
  /\ flusher

(***************************************************************************)
(* C21: with the flush timer firing for as long as it is scheduled, a      *)
(* session that is ready, with the AI socket open, no response in          *)
(* progress, the timers scheduled and MIN_FRAMES_FOR_COMMIT or more frames *)
(* buffered since the last commit does not stay so for ever: a commit and  *)
(* a response.create are sent, unless an event ends the condition first    *)
(* (a response starts, the AI socket leaves OPEN, the session is torn      *)
(* down).                                                                  *)
(***************************************************************************)
IdleWithTurnBuffered ==
  /\ sessionReady
  /\ oaiReadyState = OPEN
  /\ ~inProgress
  /\ flusher
  /\ bufferDirty
  /\ framesQueued >= MIN_FRAMES_FOR_COMMIT

\* an event of the environment that ends the condition: a response starts, a
\* 'stop' requests the closing utterance, a socket or a timer changes
EndedByEvent ==
  ResponseCreated \/ TwilioStop \/ resourceVars' # resourceVars

C21_BufferedAudioCommitted ==
  /\ []<>~IdleWithTurnBuffered
  /\ [](IdleWithTurnBuffered => ENABLED (FlushTick /\ TurnIssued))
  /\ [][(IdleWithTurnBuffered /\ ~IdleWithTurnBuffered') =>
          (TurnIssued \/ EndedByEvent)]_vars

\* the tick has fired on an idle session with a turn buffered: the frames are
\* out of the queue, committed, and a response is requested
C21_Witness ==
  /\ Commits(oaiSent) >= 1
  /\ oaiSent[Len(oaiSent)] = TurnResponseMsg
  /\ audioQueue = <<>>
  /\ inFlight = "turn"

(***************************************************************************)
(* C22: a 'media' frame (the n-th frame carries the payload n) received    *)
(* while conversationStarted is false leaves the queue, framesQueued and   *)
(* bufferDirty as they were and sends nothing on either socket; received   *)
(* while it is true, it puts exactly its payload at the tail of the queue, *)
(* adds one to framesQueued and sets bufferDirty.  conversationStarted     *)
(* changes only in a step that handles response.done, and only to true.    *)
(***************************************************************************)
C22_MediaGate ==
  /\ [][mediaSeen' # mediaSeen =>
          IF conversationStarted
          THEN /\ audioQueue' = Append(audioQueue, mediaSeen')
               /\ framesQueued' = framesQueued + 1
               /\ bufferDirty' = TRUE
          ELSE UNCHANGED <<audioQueue, framesQueued, bufferDirty, oaiSent,
                           twilioSent>>]_vars
  /\ [][conversationStarted' # conversationStarted =>
          (ResponseDone /\ conversationStarted')]_vars

\* frames have arrived on both sides of the gate: the first frame queued is
\* not the first frame received
C22_Witness ==
  /\ conversationStarted
  /\ audioQueue # <<>>
  /\ Head(audioQueue) > 1

(***************************************************************************)
(* C23: a telephony 'start' changes only streamSid: a step that changes    *)
(* streamSid leaves sessionReady, inProgress, saidHello,                   *)
(* conversationStarted, the queue, framesQueued and bufferDirty as they    *)
(* were and sends nothing on either socket; and wherever a 'start' can     *)
(* arrive that carries the identifier already held, its handling leaves    *)
(* every variable as it was.                                               *)
(***************************************************************************)
C23_StartFrame ==
  /\ [][streamSid' # streamSid =>
          UNCHANGED <<sessionReady, inProgress, saidHello, conversationStarted,
                      audioQueue, framesQueued, bufferDirty, oaiSent,
                      twilioSent, resourceVars>>]_vars
  /\ []((TwilioDelivers /\ streamSid # Null) =>
          ENABLED (TwilioStart(streamSid) /\ UNCHANGED vars))

\* a 'start' has been handled, and the call is well under way when the next
\* one can arrive: greeting sent, frames buffered, audio relayed
C23_Witness ==
  /\ streamSid \in Sids
  /\ TwilioDelivers
  /\ saidHello
  /\ framesQueued > 0
  /\ twilioSent # <<>>

====
